---- MODULE Spec2Model ----
(***************************************************************************)
(* Model of executor/task_graph.py: the payload codec (serialize /         *)
(* deserialize), the Task object and the TaskGraph registry; and of the    *)
(* Scheduler node of gcnsched_demo/scheduler.py.                           *)
(*                                                                         *)
(* A Python dict is modelled as a sequence of <<key, value>> pairs in      *)
(* insertion order.  A Task object is an index into the heap "tasks"; two  *)
(* Tasks are the same key exactly when they are the same index (Task       *)
(* defines neither __eq__ nor __hash__).                                   *)
(***************************************************************************)
EXTENDS Integers, Sequences, FiniteSets, TLC

VARIABLES tasks, task_deps, task_names, ret, exported, pending, scheduler,
          published, logged

vars ==
    <<tasks, task_deps, task_names, ret, exported, pending, scheduler,
      published, logged>>

(***************************************************************************)
(* Bounds of the model.                                                    *)
(***************************************************************************)
MaxTasks == 3      \* Task objects ever constructed
MaxDeps == 2       \* length of a *deps tuple
MaxExecTasks == 2  \* Task objects constructed where execute is explored
MaxExports == 2    \* to_networkx calls between two add_task calls
MaxTicks == 120    \* timer callbacks of the Scheduler node

(***************************************************************************)
(* The functions a caller registers: add(x, y) = x + y, square(z) = z * z, *)
(* and add_v2, a second function whose __name__ is also "add" and whose    *)
(* body is x - y.  A caller may also register add_closure, a third         *)
(* function named "add", which returns a lambda that holds x + y: a value  *)
(* pickle.dumps raises on.                                                 *)
(***************************************************************************)
Funs == {"add", "square", "add_v2"}

FunName(f) == IF f = "square" THEN "square" ELSE "add"

FunParams(f) == IF f = "square" THEN <<"z">> ELSE <<"x", "y">>

FunBody(f, a) ==
    IF f = "add" THEN a[1] + a[2]
    ELSE IF f = "square" THEN a[1] * a[1]
    ELSE IF f = "add_v2" THEN a[1] - a[2]
    ELSE [closure |-> a[1] + a[2]]

\* The functions that return a value pickle cannot serialize.
NotSerializableFuns == {"add_closure"}

Names == {FunName(f) : f \in Funs}

\* One function for each name.
NamedFuns == {"add", "square"}

(***************************************************************************)
(* Python dict: insertion-ordered pairs.                                   *)
(***************************************************************************)
DictKeys(d) == {d[i][1] : i \in DOMAIN d}

DictHas(d, k) == k \in DictKeys(d)

DictGet(d, k) == d[CHOOSE i \in DOMAIN d : d[i][1] = k][2]

DictSet(d, k, v) ==
    IF DictHas(d, k)
    THEN [i \in DOMAIN d |-> IF d[i][1] = k THEN <<k, v>> ELSE d[i]]
    ELSE Append(d, <<k, v>>)

SeqsUpTo(S, n) == UNION {[1..k -> S] : k \in 0..n}

Range(s) == {s[i] : i \in DOMAIN s}

(***************************************************************************)
(* Payload codec.  A byte is a number in 0..255, a text a sequence of      *)
(* one-character strings.  The values are Python ints; pickle protocol 4   *)
(* writes an int of 32 bits as BININT1, BININT2 or BININT, inside a FRAME  *)
(* once the body is 4 bytes or longer.                                     *)
(***************************************************************************)
B64Chars ==
    <<"A","B","C","D","E","F","G","H","I","J","K","L","M","N","O","P",
      "Q","R","S","T","U","V","W","X","Y","Z","a","b","c","d","e","f",
      "g","h","i","j","k","l","m","n","o","p","q","r","s","t","u","v",
      "w","x","y","z","0","1","2","3","4","5","6","7","8","9","+","/">>

B64Pad == "="

B64Char(n) == B64Chars[n + 1]

B64Table ==
    [c \in {B64Chars[i] : i \in DOMAIN B64Chars} |->
        (CHOOSE i \in DOMAIN B64Chars : B64Chars[i] = c) - 1]

B64Index(c) == IF c \in DOMAIN B64Table THEN B64Table[c] ELSE 64

Ok(v) == [ok |-> TRUE, val |-> v]

Fail(e) == [ok |-> FALSE, val |-> e]

RECURSIVE b64encode(_)
b64encode(b) ==
    IF Len(b) = 0 THEN <<>>
    ELSE IF Len(b) = 1
    THEN <<B64Char(b[1] \div 4), B64Char((b[1] % 4) * 16), B64Pad, B64Pad>>
    ELSE IF Len(b) = 2
    THEN <<B64Char(b[1] \div 4),
           B64Char((b[1] % 4) * 16 + b[2] \div 16),
           B64Char((b[2] % 16) * 4), B64Pad>>
    ELSE <<B64Char(b[1] \div 4),
           B64Char((b[1] % 4) * 16 + b[2] \div 16),
           B64Char((b[2] % 16) * 4 + b[3] \div 64),
           B64Char(b[3] % 64)>> \o b64encode(SubSeq(b, 4, Len(b)))

\* binascii.a2b_base64 in its default, non-strict mode: characters outside
\* the alphabet are skipped, a completed pad sequence ends the input, and
\* an unfinished quad is an error.
RECURSIVE a2b_base64(_, _, _, _, _, _)
a2b_base64(text, pos, quad_pos, leftchar, pads, out) ==
    IF pos > Len(text)
    THEN IF quad_pos # 0 THEN Fail("MalformedPayload") ELSE Ok(out)
    ELSE IF text[pos] = B64Pad
    THEN IF quad_pos >= 2 /\ quad_pos + pads + 1 >= 4
         THEN Ok(out)
         ELSE a2b_base64(text, pos + 1, quad_pos, leftchar,
                         IF quad_pos >= 2 THEN pads + 1 ELSE pads, out)
    ELSE LET c == B64Index(text[pos]) IN
         IF c >= 64
         THEN a2b_base64(text, pos + 1, quad_pos, leftchar, pads, out)
         ELSE IF quad_pos = 0
         THEN a2b_base64(text, pos + 1, 1, c, 0, out)
         ELSE IF quad_pos = 1
         THEN a2b_base64(text, pos + 1, 2, c % 16, 0,
                         Append(out, leftchar * 4 + c \div 16))
         ELSE IF quad_pos = 2
         THEN a2b_base64(text, pos + 1, 3, c % 4, 0,
                         Append(out, leftchar * 16 + c \div 4))
         ELSE a2b_base64(text, pos + 1, 0, 0, 0,
                         Append(out, leftchar * 64 + c))

b64decode(text) == a2b_base64(text, 1, 0, 0, 0, <<>>)

PROTO == 128
FRAME == 149
BININT == 74
BININT1 == 75
BININT2 == 77
STOP == 46
PickleProtocol == 4
HighestProtocol == 5
FrameSizeMin == 4

RECURSIVE LittleEndian(_, _)
LittleEndian(v, n) ==
    IF n = 0 THEN <<>> ELSE <<v % 256>> \o LittleEndian(v \div 256, n - 1)

RECURSIVE FromLittleEndian(_)
FromLittleEndian(b) ==
    IF Len(b) = 0 THEN 0 ELSE b[1] + 256 * FromLittleEndian(Tail(b))

pickle_dumps(v) ==
    LET body == IF 0 <= v /\ v < 256 THEN <<BININT1, v>>
                ELSE IF 0 <= v /\ v < 65536
                THEN <<BININT2>> \o LittleEndian(v, 2)
                ELSE <<BININT>> \o LittleEndian(v, 4)
        data == body \o <<STOP>>
    IN  <<PROTO, PickleProtocol>> \o
        (IF Len(data) >= FrameSizeMin
         THEN <<FRAME>> \o LittleEndian(Len(data), 8) ELSE <<>>) \o data

\* The unpickler's opcode loop over the opcodes above; any other byte is an
\* invalid load key, and running out of input before STOP is an error.
RECURSIVE load(_, _, _)
load(b, pos, stack) ==
    IF pos > Len(b) THEN Fail("MalformedPayload")
    ELSE IF b[pos] = PROTO
    THEN IF pos + 1 > Len(b) \/ b[pos + 1] > HighestProtocol
         THEN Fail("MalformedPayload")
         ELSE load(b, pos + 2, stack)
    ELSE IF b[pos] = FRAME
    THEN IF pos + 8 > Len(b)
            \/ pos + 8 + FromLittleEndian(SubSeq(b, pos + 1, pos + 8)) > Len(b)
         THEN Fail("MalformedPayload")
         ELSE load(b, pos + 9, stack)
    ELSE IF b[pos] = BININT1
    THEN IF pos + 1 > Len(b) THEN Fail("MalformedPayload")
         ELSE load(b, pos + 2, Append(stack, b[pos + 1]))
    ELSE IF b[pos] = BININT2
    THEN IF pos + 2 > Len(b) THEN Fail("MalformedPayload")
         ELSE load(b, pos + 3,
                   Append(stack, FromLittleEndian(SubSeq(b, pos + 1, pos + 2))))
    ELSE IF b[pos] = BININT
    THEN IF pos + 4 > Len(b) THEN Fail("MalformedPayload")
         ELSE LET low == FromLittleEndian(SubSeq(b, pos + 1, pos + 3))
                  high == IF b[pos + 4] >= 128 THEN b[pos + 4] - 256
                          ELSE b[pos + 4]
              IN  load(b, pos + 5, Append(stack, high * 16777216 + low))
    ELSE IF b[pos] = STOP
    THEN IF Len(stack) = 0 THEN Fail("MalformedPayload")
         ELSE Ok(stack[Len(stack)])
    ELSE Fail("MalformedPayload")

pickle_loads(b) == load(b, 1, <<>>)

\* serialize with the URL-safe alphabet, which b64decode does not read.
serialize_urlsafe(obj) ==
    LET text == b64encode(pickle_dumps(obj)) IN
    [i \in DOMAIN text |-> IF text[i] = "+" THEN "-"
                           ELSE IF text[i] = "/" THEN "_" ELSE text[i]]

serialize(obj) == b64encode(pickle_dumps(obj))

Decode(text) ==
    LET b == b64decode(text) IN
    IF b.ok THEN pickle_loads(b.val) ELSE b

(***************************************************************************)
(* The values and texts of the model.  Values: the ints at the edges of    *)
(* the three pickle opcodes, and 2, 3, 5 and 25.  Payloads, the texts a    *)
(* caller passes to execute: the encodings of 2, 3 and 5, and the encoding *)
(* of 5 with its last character cut off.  Encoded and Decoded tabulate the *)
(* codec over them, so that the model checker decodes each text once;      *)
(* deserialize reads the table where it has the text.                      *)
(***************************************************************************)
Values ==
    {(-2147483647) - 1, -65536, -256, -1, 0, 2, 3, 5, 25, 255, 256,
     65535, 65536, 2147483647}

Encoded == [v \in Values |-> serialize(v)]

Truncated(text) == SubSeq(text, 1, Len(text) - 1)

Payloads == {Encoded[2], Encoded[3], Encoded[5], Truncated(Encoded[5])}

Texts == {Encoded[v] : v \in Values} \cup Payloads

Decoded == [text \in Texts |-> Decode(text)]

deserialize(text) ==
    IF text \in Texts THEN Decoded[text] ELSE Decode(text)

(***************************************************************************)
(* Task: a name and a callable.  The callable is either the adapter _fun   *)
(* that add_task builds around a registered function, or the function     *)
(* itself when a caller constructs a Task directly.                        *)
(***************************************************************************)
Task(name, call) == [name |-> name, call |-> call]

TaskName(t) == tasks[t].name

\* [task.name for task in ts]
TaskNames(ts) == [i \in DOMAIN ts |-> TaskName(ts[i])]

\* fun(*args, **kwargs): Python's argument binding, then the body.
FunCall(f, args, kwargs) ==
    LET params == FunParams(f)
        bound(i) == IF i <= Len(args) THEN {args[i]}
                    ELSE {kwargs[j][2] : j \in {k \in DOMAIN kwargs :
                                                 kwargs[k][1] = params[i]}}
    IN  IF \/ Len(args) > Len(params)
           \/ \E j \in DOMAIN kwargs :
                 \A i \in (Len(args) + 1)..Len(params) : kwargs[j][1] # params[i]
           \/ \E i \in DOMAIN params : bound(i) = {}
        THEN Fail("TypeError")
        ELSE Ok(FunBody(f, [i \in DOMAIN params |-> CHOOSE v \in bound(i) : TRUE]))

\* The adapter with the positional arguments passed on in reverse order.
_fun_reversed(f, args, kwargs) ==
    LET dargs == [i \in DOMAIN args |-> deserialize(args[i])]
        dkw == [j \in DOMAIN kwargs |-> deserialize(kwargs[j][2])]
    IN  IF \E i \in DOMAIN dargs : ~dargs[i].ok
        THEN [ok |-> FALSE, val |-> "MalformedPayload", called |-> <<>>]
        ELSE IF \E j \in DOMAIN dkw : ~dkw[j].ok
        THEN [ok |-> FALSE, val |-> "MalformedPayload", called |-> <<>>]
        ELSE LET r == FunCall(f, [i \in DOMAIN dargs |->
                                      dargs[Len(dargs) + 1 - i].val],
                              [j \in DOMAIN kwargs |->
                                  <<kwargs[j][1], dkw[j].val>>])
             IN  IF ~r.ok
                 THEN [ok |-> FALSE, val |-> r.val, called |-> <<f>>]
                 ELSE IF f \in NotSerializableFuns
                 THEN [ok |-> FALSE, val |-> "NotSerializable",
                       called |-> <<f>>]
                 ELSE [ok |-> TRUE, val |-> serialize(r.val), called |-> <<f>>]

\* The adapter built by add_task: decode the positional arguments, then the
\* keyword arguments, call fun, encode what it returns; pickle.dumps raises
\* on a value it cannot serialize.  "called" lists the registered functions
\* the adapter went on to call.
_fun(f, args, kwargs) ==
    LET dargs == [i \in DOMAIN args |-> deserialize(args[i])]
        dkw == [j \in DOMAIN kwargs |-> deserialize(kwargs[j][2])]
    IN  IF \E i \in DOMAIN dargs : ~dargs[i].ok
        THEN [ok |-> FALSE, val |-> "MalformedPayload", called |-> <<>>]
        ELSE IF \E j \in DOMAIN dkw : ~dkw[j].ok
        THEN [ok |-> FALSE, val |-> "MalformedPayload", called |-> <<>>]
        ELSE LET r == FunCall(f, [i \in DOMAIN dargs |-> dargs[i].val],
                              [j \in DOMAIN kwargs |->
                                  <<kwargs[j][1], dkw[j].val>>])
             IN  IF ~r.ok
                 THEN [ok |-> FALSE, val |-> r.val, called |-> <<f>>]
                 ELSE IF f \in NotSerializableFuns
                 THEN [ok |-> FALSE, val |-> "NotSerializable",
                       called |-> <<f>>]
                 ELSE [ok |-> TRUE, val |-> serialize(r.val), called |-> <<f>>]

\* A call that first runs the functions of the Task's dependencies.
TaskCall_resolving(t, args, kwargs) ==
    LET deps == IF DictHas(task_deps, t) THEN DictGet(task_deps, t) ELSE <<>>
        r == _fun(tasks[t].call.fun, args, kwargs)
    IN  [r EXCEPT !.called =
            [k \in DOMAIN deps |-> tasks[deps[k]].call.fun] \o r.called]

\* Task.__call__ forwards to the callable.
TaskCall(t, args, kwargs) ==
    IF tasks[t].call.kind = "_fun"
    THEN _fun(tasks[t].call.fun, args, kwargs)
    ELSE LET r == FunCall(tasks[t].call.fun, args, kwargs)
         IN  [ok |-> r.ok, val |-> r.val, called |-> <<tasks[t].call.fun>>]

(***************************************************************************)
(* TaskGraph: the queries, as functions of the registry.  A lookup of a    *)
(* missing key raises KeyError, the UnknownTask outcome.                   *)
(***************************************************************************)
\* execute with the lookup task_names.get(name): a missing name yields None,
\* and calling None is a TypeError.
execute_get(name, args, kwargs) ==
    IF ~DictHas(task_names, name)
    THEN [ok |-> FALSE, val |-> "TypeError", called |-> <<>>]
    ELSE TaskCall(DictGet(task_names, name), args, kwargs)

execute(name, args, kwargs) ==
    IF ~DictHas(task_names, name)
    THEN [ok |-> FALSE, val |-> "UnknownTask", called |-> <<>>]
    ELSE TaskCall(DictGet(task_names, name), args, kwargs)

\* dependencies with the list built back to front.
dependencies_reversed(name) ==
    IF ~DictHas(task_names, name) THEN Fail("UnknownTask")
    ELSE LET deps == DictGet(task_deps, DictGet(task_names, name)) IN
         Ok([i \in DOMAIN deps |-> TaskName(deps[Len(deps) + 1 - i])])

dependencies(name) ==
    IF ~DictHas(task_names, name) THEN Fail("UnknownTask")
    ELSE IF ~DictHas(task_deps, DictGet(task_names, name))
    THEN Fail("UnknownTask")
    ELSE Ok(TaskNames(DictGet(task_deps, DictGet(task_names, name))))

str ==
    [i \in DOMAIN task_deps |->
        [task |-> TaskName(task_deps[i][1]),
         deps |-> TaskNames(task_deps[i][2])]]

NewDiGraph == [nodes |-> {}, edges |-> {}]

\* add_edge with the end points swapped.
add_edge_reversed(graph, u, v) ==
    [nodes |-> graph.nodes \cup {u, v}, edges |-> graph.edges \cup {<<v, u>>}]

add_edge(graph, u, v) ==
    [nodes |-> graph.nodes \cup {u, v}, edges |-> graph.edges \cup {<<u, v>>}]

RECURSIVE AddDepEdges(_, _, _)
AddDepEdges(graph, task, deps) ==
    IF deps = <<>> THEN graph
    ELSE AddDepEdges(add_edge(graph, TaskName(Head(deps)), TaskName(task)),
                     task, Tail(deps))

RECURSIVE AddTaskEdges(_, _)
AddTaskEdges(graph, items) ==
    IF items = <<>> THEN graph
    ELSE AddTaskEdges(AddDepEdges(graph, Head(items)[1], Head(items)[2]),
                      Tail(items))

\* An export that leaves out the edges the last export has returned.
to_networkx_incremental ==
    LET graph == AddTaskEdges(NewDiGraph, task_deps) IN
    IF exported = <<>> THEN graph
    ELSE [nodes |-> graph.nodes,
          edges |-> graph.edges \ exported[Len(exported)].edges]

to_networkx == AddTaskEdges(NewDiGraph, task_deps)

start_tasks ==
    LET sel == SelectSeq(task_names,
                         LAMBDA kv : Len(DictGet(task_deps, kv[2])) = 0)
    IN  [i \in DOMAIN sel |-> sel[i][1]]

\* list(set(...)): the order of the list is that of a set's iteration, so
\* the result is modelled as the set of its elements.
end_tasks ==
    LET source_tasks == {TaskName(dep) :
                            dep \in UNION {Range(DictGet(task_deps, kv[2])) :
                                              kv \in Range(task_names)}}
    IN  DictKeys(task_names) \ source_tasks

RECURSIVE DictBuild(_, _)
DictBuild(d, items) ==
    IF items = <<>> THEN d
    ELSE DictBuild(DictSet(d, Head(items)[1], Head(items)[2]), Tail(items))

\* A dump that keeps, for a name, the entry of the Task registered first.
summary_first_wins ==
    LET firsts == SelectSeq([k \in DOMAIN task_deps |-> <<k, task_deps[k]>>],
                            LAMBDA e : \A j \in 1..(e[1] - 1) :
                                TaskName(task_deps[j][1]) # TaskName(e[2][1]))
    IN  [k \in DOMAIN firsts |->
            <<TaskName(firsts[k][2][1]), TaskNames(firsts[k][2][2])>>]

summary ==
    DictBuild(<<>>, [i \in DOMAIN task_deps |->
                        <<TaskName(task_deps[i][1]),
                          TaskNames(task_deps[i][2])>>])

(***************************************************************************)
(* The state: the heap of Task objects, the two maps of the TaskGraph and  *)
(* the record of the last call with its arguments and outcome; the graphs  *)
(* a caller got from to_networkx since the last add_task; the Task of      *)
(* an add_task that has not returned yet; the Scheduler node with its      *)
(* counter i, the messages published on its topic and the lines it has     *)
(* logged.                                                                 *)
(***************************************************************************)
Ret(op, name, args, kwargs, out, val, called) ==
    [op |-> op, name |-> name, args |-> args, kwargs |-> kwargs,
     out |-> out, val |-> val, called |-> called]

Init ==
    /\ tasks = <<>>
    /\ task_deps = <<>>
    /\ task_names = <<>>
    /\ ret = Ret("__init__", "", <<>>, <<>>, "ok", <<>>, <<>>)
    /\ exported = <<>>
    /\ pending = <<>>
    /\ scheduler = [i |-> 0]
    /\ published = <<>>
    /\ logged = <<>>

\* A caller constructs a Task directly; the graph does not know it.
NewTask(f) ==
    /\ Len(tasks) < MaxTasks
    /\ tasks' = Append(tasks, Task(FunName(f), [kind |-> "raw", fun |-> f]))
    /\ ret' = Ret("Task", FunName(f), <<>>, <<>>, "ok", Len(tasks) + 1, <<>>)
    /\ UNCHANGED <<task_deps, task_names, exported, pending, scheduler, published, logged>>

\* A registration that, for a name already bound, stores the deps under
\* the Task the name is bound to and makes no new Task.
add_task_reusing(op, f, deps) ==
    LET task == IF DictHas(task_names, FunName(f))
                THEN DictGet(task_names, FunName(f))
                ELSE Len(tasks) + 1
    IN  /\ Len(tasks) < MaxTasks
        /\ tasks' = IF DictHas(task_names, FunName(f)) THEN tasks
                    ELSE Append(tasks, Task(FunName(f),
                                            [kind |-> "_fun", fun |-> f]))
        /\ task_deps' = DictSet(task_deps, task, deps)
        /\ task_names' = DictSet(task_names, FunName(f), task)
        /\ ret' = Ret(op, FunName(f), deps, <<>>, "ok", task, <<>>)
        /\ exported' = <<>>
        /\ UNCHANGED <<pending, scheduler, published, logged>>

\* A registration that refuses a dependency whose name is the name being
\* registered or depends on it.
add_task_acyclic(op, f, deps) ==
    LET task == Len(tasks) + 1
        behind == {FunName(f)} \cup
                  {TaskName(task_deps[k][1]) : k \in {j \in DOMAIN task_deps :
                      FunName(f) \in Range(TaskNames(task_deps[j][2]))}}
    IN  /\ Len(tasks) < MaxTasks
        /\ IF \E d \in Range(deps) : TaskName(d) \in behind
           THEN /\ ret' = Ret(op, FunName(f), deps, <<>>, "CyclicDependency",
                              0, <<>>)
                /\ UNCHANGED <<tasks, task_deps, task_names, exported>>
           ELSE /\ tasks' = Append(tasks, Task(FunName(f),
                                               [kind |-> "_fun", fun |-> f]))
                /\ task_deps' = DictSet(task_deps, task, deps)
                /\ task_names' = DictSet(task_names, FunName(f), task)
                /\ ret' = Ret(op, FunName(f), deps, <<>>, "ok", task, <<>>)
                /\ exported' = <<>>
        /\ UNCHANGED <<pending, scheduler, published, logged>>

\* A registration that keeps the Task task_names already holds under the
\* name.
add_task_first_wins(op, f, deps) ==
    LET task == Len(tasks) + 1 IN
    /\ Len(tasks) < MaxTasks
    /\ tasks' = Append(tasks, Task(FunName(f), [kind |-> "_fun", fun |-> f]))
    /\ task_deps' = DictSet(task_deps, task, deps)
    /\ task_names' = IF DictHas(task_names, FunName(f)) THEN task_names
                     ELSE DictSet(task_names, FunName(f), task)
    /\ ret' = Ret(op, FunName(f), deps, <<>>, "ok", task, <<>>)
    /\ exported' = <<>>
    /\ UNCHANGED <<pending, scheduler, published, logged>>

\* A registration that drops the Task registered before under the name.
add_task_replacing(op, f, deps) ==
    LET task == Len(tasks) + 1 IN
    /\ Len(tasks) < MaxTasks
    /\ tasks' = Append(tasks, Task(FunName(f), [kind |-> "_fun", fun |-> f]))
    /\ task_deps' =
           Append(SelectSeq(task_deps,
                            LAMBDA kv : TaskName(kv[1]) # FunName(f)),
                  <<task, deps>>)
    /\ task_names' = DictSet(task_names, FunName(f), task)
    /\ ret' = Ret(op, FunName(f), deps, <<>>, "ok", task, <<>>)
    /\ exported' = <<>>
    /\ UNCHANGED <<pending, scheduler, published, logged>>

add_task(op, f, deps) ==
    LET task == Len(tasks) + 1 IN
    /\ Len(tasks) < MaxTasks
    /\ tasks' = Append(tasks, Task(FunName(f), [kind |-> "_fun", fun |-> f]))
    /\ task_deps' = DictSet(task_deps, task, deps)
    /\ task_names' = DictSet(task_names, FunName(f), task)
    /\ ret' = Ret(op, FunName(f), deps, <<>>, "ok", task, <<>>)
    /\ exported' = <<>>
    /\ UNCHANGED <<pending, scheduler, published, logged>>

(***************************************************************************)
(* add_task in the two steps another thread can see: the Task is made and *)
(* written to task_deps (lines 50-51), then it is written to task_names    *)
(* and returned (lines 52-53).  One add_task is in flight at a time.       *)
(***************************************************************************)
\* The first step with the two writes in the other order: the name first.
add_task_names_first(f, deps) ==
    LET task == Len(tasks) + 1 IN
    /\ pending = <<>>
    /\ Len(tasks) < MaxTasks
    /\ tasks' = Append(tasks, Task(FunName(f), [kind |-> "_fun", fun |-> f]))
    /\ task_names' = DictSet(task_names, FunName(f), task)
    /\ pending' = <<[task |-> task, deps |-> deps]>>
    /\ UNCHANGED <<task_deps, ret, exported, scheduler, published, logged>>

add_task_deps(f, deps) ==
    LET task == Len(tasks) + 1 IN
    /\ pending = <<>>
    /\ Len(tasks) < MaxTasks
    /\ tasks' = Append(tasks, Task(FunName(f), [kind |-> "_fun", fun |-> f]))
    /\ task_deps' = DictSet(task_deps, task, deps)
    /\ pending' = <<[task |-> task, deps |-> deps]>>
    /\ UNCHANGED <<task_names, ret, exported, scheduler, published, logged>>

add_task_names ==
    /\ pending # <<>>
    /\ task_names' = DictSet(task_names, TaskName(pending[1].task),
                             pending[1].task)
    /\ ret' = Ret("add_task", TaskName(pending[1].task), pending[1].deps,
                  <<>>, "ok", pending[1].task, <<>>)
    /\ pending' = <<>>
    /\ exported' = <<>>
    /\ UNCHANGED <<tasks, task_deps, scheduler, published, logged>>

\* The *deps of a call: up to MaxDeps different Tasks among those that
\* exist, in any order.
DepTuples ==
    {deps \in SeqsUpTo(DOMAIN tasks, MaxDeps) :
        \A i, j \in DOMAIN deps : deps[i] = deps[j] => i = j}

AddTask == \E f \in NamedFuns : \E deps \in DepTuples :
    add_task("add_task", f, deps)

\* The decorator form task(*deps)(fun).
TaskDecorator == \E f \in NamedFuns : \E deps \in DepTuples :
    add_task("task", f, deps)

Construct == \E f \in NamedFuns : NewTask(f)

AddTaskDeps == \E f \in NamedFuns : \E deps \in DepTuples :
    add_task_deps(f, deps)

AddTaskNames == add_task_names

\* add_task where execute and the codec are explored: any of the three
\* functions, on registries of up to MaxExecTasks Tasks.
AddTaskExec == \E f \in Funs : \E deps \in DepTuples :
    /\ Len(tasks) < MaxExecTasks
    /\ add_task("add_task", f, deps)

\* add_task of square and of add_closure, where the failures of execute
\* are explored.
AddTaskRaising == \E f \in {"square"} \cup NotSerializableFuns :
    \E deps \in DepTuples :
        /\ Len(tasks) < MaxExecTasks
        /\ add_task("add_task", f, deps)

(***************************************************************************)
(* The inputs of execute: up to as many positional arguments as the        *)
(* longest parameter list, and at most one keyword argument.               *)
(***************************************************************************)
KwKeys == {"y"}

KwPayloads == {Encoded[3], Truncated(Encoded[5])}

MaxArity == CHOOSE n \in {Len(FunParams(f)) : f \in Funs} :
                \A g \in Funs : Len(FunParams(g)) <= n

CallInputs ==
    {c \in SeqsUpTo(Payloads, MaxArity) \X
           ({<<>>} \cup {<<<<k, p>>>> : k \in KwKeys, p \in KwPayloads}) :
        Len(c[1]) + Len(c[2]) <= MaxArity}

\* An execute that takes the name out of task_names when the call fails.
Execute_unregistering == \E name \in Names : \E c \in CallInputs :
    LET r == execute(name, c[1], c[2]) IN
    /\ ret' = Ret("execute", name, c[1], c[2],
                  IF r.ok THEN "ok" ELSE r.val,
                  IF r.ok THEN r.val ELSE <<>>, r.called)
    /\ task_names' = IF r.ok THEN task_names
                     ELSE SelectSeq(task_names, LAMBDA kv : kv[1] # name)
    /\ UNCHANGED <<tasks, task_deps, exported, pending, scheduler, published, logged>>

Execute == \E name \in Names : \E c \in CallInputs :
    LET r == execute(name, c[1], c[2]) IN
    /\ ret' = Ret("execute", name, c[1], c[2],
                  IF r.ok THEN "ok" ELSE r.val,
                  IF r.ok THEN r.val ELSE <<>>, r.called)
    /\ UNCHANGED <<tasks, task_deps, task_names, exported, pending, scheduler, published, logged>>

Dependencies == \E name \in Names :
    LET r == dependencies(name) IN
    /\ ret' = Ret("dependencies", name, <<>>, <<>>,
                  IF r.ok THEN "ok" ELSE r.val,
                  IF r.ok THEN r.val ELSE <<>>, <<>>)
    /\ UNCHANGED <<tasks, task_deps, task_names, exported, pending, scheduler, published, logged>>

Query(op, val) ==
    /\ ret' = Ret(op, "", <<>>, <<>>, "ok", val, <<>>)
    /\ UNCHANGED <<tasks, task_deps, task_names, exported, pending, scheduler, published, logged>>

StartTasks == Query("start_tasks", start_tasks)

EndTasks == Query("end_tasks", end_tasks)

Summary == Query("summary", summary)

ToNetworkx == Query("to_networkx", to_networkx)

\* to_networkx called by a caller that keeps the graphs it gets, up to
\* MaxExports of them between two add_task calls.
Export ==
    /\ Len(exported) < MaxExports
    /\ ret' = Ret("to_networkx", "", <<>>, <<>>, "ok", to_networkx, <<>>)
    /\ exported' = Append(exported, to_networkx)
    /\ UNCHANGED <<tasks, task_deps, task_names, pending, scheduler, published, logged>>

Str == Query("__str__", str)

(***************************************************************************)
(* The codec called on its own: serialize on Values, deserialize on Texts. *)
(***************************************************************************)
Serialize == \E v \in Values :
    /\ ret' = Ret("serialize", "", <<v>>, <<>>, "ok", serialize(v), <<>>)
    /\ UNCHANGED <<tasks, task_deps, task_names, exported, pending, scheduler, published, logged>>

Deserialize == \E text \in Texts :
    LET r == deserialize(text) IN
    /\ ret' = Ret("deserialize", "", <<text>>, <<>>,
                  IF r.ok THEN "ok" ELSE r.val,
                  IF r.ok THEN r.val ELSE <<>>, <<>>)
    /\ UNCHANGED <<tasks, task_deps, task_names, exported, pending, scheduler, published, logged>>

(***************************************************************************)
(* The Scheduler node.  A text is a sequence of strings; "%d" % n is the   *)
(* decimal digits of n, with a minus sign in front for a negative n.       *)
(***************************************************************************)
DigitChars == <<"0", "1", "2", "3", "4", "5", "6", "7", "8", "9">>

RECURSIVE Digits(_)
Digits(n) ==
    IF n < 10 THEN <<DigitChars[n + 1]>>
    ELSE Digits(n \div 10) \o <<DigitChars[(n % 10) + 1]>>

FormatD(n) == IF n < 0 THEN <<"-">> \o Digits(0 - n) ELSE Digits(n)

\* 'Scheduler status %d: GOOD' % n
StatusMessage(n) == <<"Scheduler status ">> \o FormatD(n) \o <<": GOOD">>

\* 'Publishing: "%s"' % data
LogLine(data) == <<"Publishing: \"">> \o data \o <<"\"">>

\* The callback with the counter incremented before the message is made.
timer_callback_increment_first ==
    /\ scheduler.i < MaxTicks
    /\ scheduler' = [scheduler EXCEPT !.i = scheduler.i + 1]
    /\ published' = Append(published, StatusMessage(scheduler.i + 1))
    /\ logged' = Append(logged, LogLine(StatusMessage(scheduler.i + 1)))
    /\ UNCHANGED <<tasks, task_deps, task_names, ret, exported, pending>>

timer_callback ==
    /\ scheduler.i < MaxTicks
    /\ published' = Append(published, StatusMessage(scheduler.i))
    /\ logged' = Append(logged, LogLine(StatusMessage(scheduler.i)))
    /\ scheduler' = [scheduler EXCEPT !.i = scheduler.i + 1]
    /\ UNCHANGED <<tasks, task_deps, task_names, ret, exported, pending>>

(***************************************************************************)
(* Spec: Task construction, registration of one function per name, and    *)
(* the queries.  execute never writes the registry and the registry never  *)
(* looks into a function, so the shapes of registry Spec reaches are those *)
(* the program reaches.                                                    *)
(* SpecExec: registration of any of the functions, dependencies, and       *)
(* execute on every input of CallInputs, over registries of up to          *)
(* MaxExecTasks Tasks.                                                     *)
(* SpecCodec: registration and the two codec functions.                    *)
(***************************************************************************)
Next ==
    \/ Construct
    \/ AddTask
    \/ TaskDecorator
    \/ Dependencies
    \/ StartTasks
    \/ EndTasks
    \/ Summary
    \/ ToNetworkx
    \/ Str

Spec == Init /\ [][Next]_vars

NextExec ==
    \/ AddTaskExec
    \/ Execute
    \/ Dependencies

SpecExec == Init /\ [][NextExec]_vars

NextCodec ==
    \/ AddTaskExec
    \/ Serialize
    \/ Deserialize

SpecCodec == Init /\ [][NextCodec]_vars

\* SpecFail: registration of square and add_closure, execute on every input
\* of CallInputs, and the queries.
NextFail ==
    \/ AddTaskRaising
    \/ Execute
    \/ Dependencies
    \/ StartTasks
    \/ EndTasks
    \/ Summary
    \/ Str

SpecFail == Init /\ [][NextFail]_vars

\* SpecInterleaved: add_task in its two steps, and the queries of another
\* thread running before, between and after them.
NextInterleaved ==
    \/ AddTaskDeps
    \/ AddTaskNames
    \/ Dependencies
    \/ StartTasks
    \/ EndTasks

SpecInterleaved == Init /\ [][NextInterleaved]_vars

\* SpecScheduler: the timer of the Scheduler node firing.
NextScheduler == timer_callback

SpecScheduler == Init /\ [][NextScheduler]_vars

\* SpecExport: registration, dependencies and to_networkx with the caller
\* keeping the graphs.
NextExport ==
    \/ AddTask
    \/ Dependencies
    \/ Export

SpecExport == Init /\ [][NextExport]_vars

(***************************************************************************)
(* Properties.                                                             *)
(***************************************************************************)
AddOps == {"add_task", "task"}

Keys == DictKeys(task_deps)

\* C1: every Task that is a key of task_deps is the Task that task_names
\* holds under its name.
C1_InSync ==
    \A t \in Keys :
        /\ DictHas(task_names, TaskName(t))
        /\ DictGet(task_names, TaskName(t)) = t

\* C2: right after add_task(fn, d1, ..., dn) dependencies(fn.__name__) is
\* [d1.name, ..., dn.name], the call succeeds whatever Tasks it is given and
\* stores them under the Task it returns, and dependencies(n) keeps its value
\* in every step that does not register n.
C2_AfterAddTask ==
    ret.op \in AddOps =>
        /\ ret.out = "ok"
        /\ DictGet(task_deps, ret.val) = ret.args
        /\ dependencies(ret.name) = Ok(TaskNames(ret.args))

C2_RegistrationMonotonic ==
    [][/\ C2_AfterAddTask'
       /\ \A n \in Names :
            (DictHas(task_names, n) /\ ~(ret'.op \in AddOps /\ ret'.name = n))
                => dependencies(n)' = dependencies(n)]_vars

\* A task was registered with two dependencies of different names, both of
\* them Tasks returned by earlier add_task calls.
C2_Witness ==
    /\ ret.op \in AddOps
    /\ Len(ret.args) = 2
    /\ TaskName(ret.args[1]) # TaskName(ret.args[2])
    /\ Range(ret.args) \subseteq Keys
    /\ dependencies(ret.name) = Ok(<<"add", "square">>)

\* C3: end_tasks() is the registered names minus the names found in any
\* dependency list stored in task_deps.
C3_EndTasksAllLists ==
    end_tasks =
        DictKeys(task_names) \
            {TaskName(d) : d \in UNION {Range(task_deps[i][2]) :
                                           i \in DOMAIN task_deps}}

\* C4: start_tasks() holds, once each, the names n such that some
\* registered Task named n has no dependencies.
C4_StartTasksAllTasks ==
    /\ Range(start_tasks) =
           {TaskName(t) : t \in {k \in Keys : Len(DictGet(task_deps, k)) = 0}}
    /\ \A i, j \in DOMAIN start_tasks :
           start_tasks[i] = start_tasks[j] => i = j

\* C5: execute and dependencies of a name that is not a key of task_names
\* end in UnknownTask, call no registered function, return no value and
\* leave task_deps and task_names as they were.
C5_UnknownLookup ==
    [][(ret'.op \in {"execute", "dependencies"}
            /\ ~DictHas(task_names, ret'.name))
        => /\ ret'.out = "UnknownTask"
           /\ ret'.called = <<>>
           /\ ret'.val = <<>>
           /\ task_deps' = task_deps
           /\ task_names' = task_names]_vars

\* execute of a name that is not registered, with arguments, on a registry
\* that holds a task of another name.
C5_Witness ==
    /\ ret.op = "execute"
    /\ ~DictHas(task_names, ret.name)
    /\ Len(ret.args) > 0
    /\ Len(task_names) > 0
    /\ ret.out = "UnknownTask"

\* C6: execute(n, e1, ..., ek) of a registered name n bound to f, on
\* encodings of as many values as f has parameters, returns a text that
\* decodes to f of the decoded values, and encoding that value again gives
\* the same text.
C6_ExecutionIsolation ==
    (/\ ret.op = "execute"
     /\ DictHas(task_names, ret.name)
     /\ ret.kwargs = <<>>
     /\ \A i \in DOMAIN ret.args : deserialize(ret.args[i]).ok
     /\ Len(ret.args) =
            Len(FunParams(tasks[DictGet(task_names, ret.name)].call.fun)))
    => /\ ret.out = "ok"
       /\ deserialize(ret.val) =
              Ok(FunBody(tasks[DictGet(task_names, ret.name)].call.fun,
                         [i \in DOMAIN ret.args |->
                             deserialize(ret.args[i]).val]))
       /\ serialize(deserialize(ret.val).val) = ret.val

\* square, registered as depending on add, was executed on the encoding of
\* 5, which is what execute("add", encode(2), encode(3)) returns; the result
\* decodes to 25.
C6_Witness ==
    /\ ret.op = "execute"
    /\ ret.name = "square"
    /\ ret.args = <<Encoded[5]>>
    /\ ret.out = "ok"
    /\ deserialize(ret.val) = Ok(25)
    /\ TaskNames(DictGet(task_deps, DictGet(task_names, "square"))) = <<"add">>
    /\ tasks[DictGet(task_names, "add")].call.fun = "add"
    /\ ret.args[1] = execute("add", <<Encoded[2], Encoded[3]>>, <<>>).val

\* C7: deserialize of the text serialize made from a value gives that value
\* back, and no call of either function changes task_deps or task_names.
C7_RoundTrip ==
    [][/\ ret'.op \in {"serialize", "deserialize"} =>
            /\ task_deps' = task_deps
            /\ task_names' = task_names
       /\ ret'.op = "serialize" =>
            deserialize(ret'.val) = Ok(ret'.args[1])
       /\ ret'.op = "deserialize" =>
            \A v \in Values :
                ret'.args = <<Encoded[v]>> => ret'.out = "ok" /\ ret'.val = v]_vars

\* The encoding of 255, the one whose text holds a "/", was decoded on a
\* registry that holds a task.
C7_Witness ==
    /\ ret.op = "deserialize"
    /\ ret.args = <<Encoded[255]>>
    /\ \E i \in DOMAIN ret.args[1] : ret.args[1][i] = "/"
    /\ ret.val = 255
    /\ Len(task_deps) > 0

\* C8: every Task inside a dependency list stored in task_deps is itself a
\* key of task_deps.
C8_DepsRegistered ==
    \A i \in DOMAIN task_deps :
        \A d \in Range(task_deps[i][2]) : d \in Keys

\* C9: summary() has one entry per add_task call, and for every pair stored
\* in task_deps the entry of the task's name is the names of its
\* dependencies in order.
C9_SummaryFullDump ==
    /\ Len(summary) = Len(task_deps)
    /\ \A i \in DOMAIN task_deps :
        /\ DictHas(summary, TaskName(task_deps[i][1]))
        /\ DictGet(summary, TaskName(task_deps[i][1])) =
               TaskNames(task_deps[i][2])

\* C10: the edges of the graph to_networkx returns are the pairs
\* (dep.name, task.name) for task a key of task_deps and dep in its list.
C10_ExportEdges ==
    ret.op = "to_networkx" =>
        ret.val.edges =
            UNION {{<<TaskName(dep), TaskName(task_deps[i][1])>> :
                       dep \in Range(task_deps[i][2])} :
                   i \in DOMAIN task_deps}

\* The export of a registry with two dependency relations between
\* different names gave two edges.
C10_Witness ==
    /\ ret.op = "to_networkx"
    /\ Cardinality(ret.val.edges) = 2
    /\ <<"add", "square">> \in ret.val.edges

\* C11: a to_networkx call leaves tasks, task_deps and task_names as they
\* were, and the graph it returns has the same edge set as every graph
\* to_networkx has returned since the last add_task.
C11_IdempotentExport ==
    [][ret'.op = "to_networkx" =>
        /\ tasks' = tasks
        /\ task_deps' = task_deps
        /\ task_names' = task_names
        /\ \A k \in DOMAIN exported : ret'.val.edges = exported[k].edges]_vars

\* to_networkx was called twice after the last add_task, on a registry with
\* two dependency relations, and both graphs have these two edges.
C11_Witness ==
    /\ ret.op = "to_networkx"
    /\ Len(exported) = 2
    /\ exported[2] = ret.val
    /\ exported[1].edges = exported[2].edges
    /\ Cardinality(ret.val.edges) = 2

\* The function wrapped by the Task that task_names holds under name.
BoundFun(name) == tasks[DictGet(task_names, name)].call.fun

\* Every text passed to the call decodes.
ArgsDecode(call) ==
    /\ \A k \in DOMAIN call.args : deserialize(call.args[k]).ok
    /\ \A k \in DOMAIN call.kwargs : deserialize(call.kwargs[k][2]).ok

\* C12 as stated: every execute of a registered name invokes the function
\* of the Task bound to the name exactly once and no other function.
C12_InvokesExactlyOnce ==
    (ret.op = "execute" /\ DictHas(task_names, ret.name))
        => ret.called = <<BoundFun(ret.name)>>

\* C12, amended: an execute of a registered name invokes no function but
\* the one of the Task bound to the name, and that one at most once,
\* whatever dependencies the Task has: exactly once when every argument
\* decodes, and not at all when one does not.
C12_InvokesOnlyBound ==
    (ret.op = "execute" /\ DictHas(task_names, ret.name))
        => /\ ArgsDecode(ret) => ret.called = <<BoundFun(ret.name)>>
           /\ ~ArgsDecode(ret) =>
                ret.called = <<>> /\ ret.out = "MalformedPayload"

\* square, registered as depending on add, was executed with success and
\* only square was called.
C12_Witness ==
    /\ ret.op = "execute"
    /\ ret.name = "square"
    /\ ret.out = "ok"
    /\ ret.called = <<"square">>
    /\ DictHas(task_names, "square")
    /\ Len(DictGet(task_deps, DictGet(task_names, "square"))) > 0
    /\ \A d \in Range(DictGet(task_deps, DictGet(task_names, "square"))) :
          tasks[d].call.fun # "square"

\* C13: the registry starts empty; no step takes a Task out of the keys of
\* task_deps or a name out of the keys of task_names, or changes the
\* dependency list of a Task that is a key; every add_task adds one key to
\* task_deps, the Task it returns.
C13_RegistryOnlyGrows ==
    /\ task_deps = <<>> /\ task_names = <<>>
    /\ [][/\ Keys \subseteq Keys'
          /\ DictKeys(task_names) \subseteq DictKeys(task_names')
          /\ \A t \in Keys : DictGet(task_deps', t) = DictGet(task_deps, t)
          /\ ret'.op \in AddOps =>
                /\ Keys' = Keys \cup {ret'.val}
                /\ ret'.val \notin Keys
                /\ Len(task_deps') = Len(task_deps) + 1]_vars

\* A name was registered a second time while another Task depends on the
\* Task registered first, and all three Tasks are keys of task_deps.
C13_Witness ==
    /\ ret.op \in AddOps
    /\ Len(task_deps) = 3
    /\ \E t \in Keys :
          /\ t # ret.val
          /\ TaskName(t) = ret.name
          /\ \E u \in Keys : t \in Range(DictGet(task_deps, u))

ReadOps ==
    {"execute", "dependencies", "start_tasks", "end_tasks", "summary",
     "__str__"}

Failures == {"UnknownTask", "MalformedPayload", "TypeError", "NotSerializable"}

\* C14: execute, whether it succeeds or fails, and every query leave tasks,
\* task_deps and task_names as they were; an execute that fails ends in
\* the failure with no value, having called the function at most once:
\* UnknownTask for a name that is not registered, MalformedPayload for an
\* argument that does not decode, else the error of the function, else
\* NotSerializable.
C14_FailureLeavesRegistry ==
    [][ret'.op \in ReadOps =>
        /\ tasks' = tasks
        /\ task_deps' = task_deps
        /\ task_names' = task_names
        /\ ret'.out \in Failures \cup {"ok"}
        /\ ret'.op = "execute" =>
            /\ Len(ret'.called) <= 1
            /\ ret'.out # "ok" => ret'.val = <<>>
            /\ ret'.out = "UnknownTask" <=> ~DictHas(task_names, ret'.name)
            /\ DictHas(task_names, ret'.name) =>
                /\ ret'.out = "MalformedPayload" <=> ~ArgsDecode(ret')
                /\ ret'.out = "NotSerializable" =>
                      BoundFun(ret'.name) \in NotSerializableFuns
                /\ ret'.out \in {"TypeError", "NotSerializable"} =>
                      ret'.called = <<BoundFun(ret'.name)>>]_vars

\* execute of add, bound to add_closure and registered after square, was
\* given two payloads that decode and failed with NotSerializable after
\* one call of the function.
C14_Witness ==
    /\ ret.op = "execute"
    /\ ret.out = "NotSerializable"
    /\ ret.called = <<"add_closure">>
    /\ Len(ret.args) = 2
    /\ Len(task_deps) = 2
    /\ DictHas(task_names, "square")

\* Right after add_task the name is bound to the Task it returned:
\* dependencies gives the deps of the call, and execute calls the adapter of
\* the function just registered.
C15_LastWins ==
    ret.op \in AddOps =>
        /\ DictGet(task_names, ret.name) = ret.val
        /\ dependencies(ret.name) = Ok(TaskNames(ret.args))
        /\ \A args \in {<<>>, <<Encoded[5]>>, <<Encoded[5], Encoded[3]>>} :
              execute(ret.name, args, <<>>) =
                  _fun(tasks[ret.val].call.fun, args, <<>>)

RECURSIVE TransitiveClosure(_)
TransitiveClosure(edges) ==
    LET more == edges \cup
                {<<p[1][1], p[2][2]>> :
                    p \in {q \in edges \X edges : q[1][2] = q[2][1]}}
    IN  IF more = edges THEN edges ELSE TransitiveClosure(more)

HasCycle(edges) == \E e \in TransitiveClosure(edges) : e[1] = e[2]

\* C16: add_task checks nothing about cycles: every add_task succeeds and
\* adds the edges (dep.name, name) of its deps to the relation to_networkx
\* exports, also where they close a cycle; a cycle over names is reached
\* with deps that are all Tasks returned by earlier add_task calls.
C16_NoAcyclicityCheck ==
    [][ret'.op \in AddOps =>
        /\ ret'.out = "ok"
        /\ to_networkx'.edges =
               to_networkx.edges \cup
                   {<<TaskName(d), ret'.name>> : d \in Range(ret'.args)}]_vars

\* add, then square depending on add, then add depending on square: every
\* dependency is a Task add_task returned, and the relation over names has
\* the cycle add -> square -> add.
C16_Witness ==
    /\ Keys = DOMAIN tasks
    /\ C8_DepsRegistered
    /\ to_networkx.edges = {<<"add", "square">>, <<"square", "add">>}
    /\ HasCycle(to_networkx.edges)
    /\ ret.op \in AddOps

\* C17: summary() has an entry for exactly the names of task_names, and
\* the entry of a name n is the list dependencies(n) returns.
C17_SummaryAgreesWithLookup ==
    /\ DictKeys(summary) = DictKeys(task_names)
    /\ \A n \in DictKeys(task_names) :
          dependencies(n) = Ok(DictGet(summary, n))

\* summary was called after add was registered twice with different
\* dependency lists; its entry for add is the list of the second
\* registration.
C17_Witness ==
    /\ ret.op = "summary"
    /\ DictHas(task_names, "add")
    /\ \E t \in Keys :
          /\ TaskName(t) = "add"
          /\ t # DictGet(task_names, "add")
          /\ TaskNames(DictGet(task_deps, t)) # DictGet(ret.val, "add")
    /\ dependencies("add") = Ok(DictGet(ret.val, "add"))

\* The dependency relation over Tasks: (dep, task) for task a key of
\* task_deps and dep in its list.
TaskEdges ==
    UNION {{<<dep, task_deps[k][1]>> : dep \in Range(task_deps[k][2])} :
           k \in DOMAIN task_deps}

\* C18: every dependency of a key of task_deps that is itself a key was
\* registered before it, and no Task is reached from itself along the
\* dependency edges between Tasks.
C18_IdentityAcyclic ==
    /\ \A k \in DOMAIN task_deps :
          \A dep \in Range(task_deps[k][2]) :
              dep \in Keys => \E j \in 1..(k - 1) : task_deps[j][1] = dep
    /\ ~HasCycle(TaskEdges)

\* Three Tasks, each registered with Tasks add_task returned before: the
\* second depends on the first and the third on the second; the relation
\* over names has a cycle and the relation over Tasks has none.
C18_Witness ==
    /\ Keys = DOMAIN tasks
    /\ Len(task_deps) = 3
    /\ C8_DepsRegistered
    /\ TaskEdges = {<<1, 2>>, <<2, 3>>}
    /\ HasCycle(to_networkx.edges)
    /\ ~HasCycle(TaskEdges)

\* C19: at every step, also between the two writes of add_task, every Task
\* task_names holds is a key of task_deps; a dependencies call of a name
\* that task_names holds succeeds, and start_tasks and end_tasks return.
C19_QueriesFindKeys ==
    /\ [](\A k \in DOMAIN task_names : task_names[k][2] \in Keys)
    /\ [][/\ (ret'.op = "dependencies" /\ DictHas(task_names, ret'.name))
                => ret'.out = "ok"
          /\ ret'.op \in {"start_tasks", "end_tasks"} => ret'.out = "ok"]_vars

\* dependencies of add ran while a second add_task of add had written
\* task_deps and not yet task_names; it returned the list of the first
\* registration.
C19_Witness ==
    /\ pending # <<>>
    /\ pending[1].task \in Keys
    /\ TaskName(pending[1].task) = "add"
    /\ DictHas(task_names, "add")
    /\ DictGet(task_names, "add") # pending[1].task
    /\ ret.op = "dependencies"
    /\ ret.name = "add"
    /\ ret.out = "ok"
    /\ ret.val # TaskNames(pending[1].deps)

\* The number a status message carries, read back from its digits.
RECURSIVE ParseDigits(_)
ParseDigits(digits) ==
    IF digits = <<>> THEN 0
    ELSE 10 * ParseDigits(SubSeq(digits, 1, Len(digits) - 1))
         + (CHOOSE d \in 0..9 : DigitChars[d + 1] = digits[Len(digits)])

SequenceNumber(msg) == ParseDigits(SubSeq(msg, 2, Len(msg) - 1))

\* C20: every timer callback publishes one message and adds one to the
\* counter; the k-th message published, counting from 0, is
\* 'Scheduler status k: GOOD', so the numbers start at 0 and none is
\* repeated or skipped.
C20_Heartbeat ==
    /\ [](/\ Len(published) = scheduler.i
          /\ \A k \in DOMAIN published :
                /\ published[k] = StatusMessage(k - 1)
                /\ published[k][1] = "Scheduler status "
                /\ published[k][Len(published[k])] = ": GOOD"
                /\ SequenceNumber(published[k]) = k - 1)
    /\ [][/\ Len(published') = Len(published) + 1
          /\ SubSeq(published', 1, Len(published)) = published
          /\ scheduler'.i = scheduler.i + 1]_vars

\* Twelve callbacks have run; the last message carries the number 11 and
\* the one before the number 10.
C20_Witness ==
    /\ scheduler.i = 12
    /\ Len(published) = 12
    /\ published[12] = <<"Scheduler status ", "1", "1", ": GOOD">>
    /\ published[11] = <<"Scheduler status ", "1", "0", ": GOOD">>
    /\ published[1] = <<"Scheduler status ", "0", ": GOOD">>

====
